---- MODULE Spec2Model ----
(***************************************************************************)
(* Model of x509gen.py: the create-or-reuse provisioning of a four-level   *)
(* certificate chain (root CA, signing CA, server leaf, self-signed        *)
(* client) over twelve PEM files grouped in eight slots.                   *)
(*                                                                         *)
(* main() is modelled at the granularity of single file reads and writes:  *)
(* every open().read(), every open().write(), every key generation and     *)
(* every certificate build is one step of a run.  Several runs exist; the  *)
(* specification Spec executes them one after the other, SpecConc lets two *)
(* of them interleave on the same store.                                   *)
(***************************************************************************)
EXTENDS Integers, Sequences, FiniteSets, TLC

VARIABLES
    store,      \* the directory: file name -> PEM bytes or NoFile
    pcSlot,     \* per run: the slot (1..8) main() is resolving, 9 past the end
    pcOp,       \* per run: the statement of that slot's try/except it is at
    loc,        \* per run: main()'s local variables (one per file)
    store0,     \* per run: the store as it was when the run started
    wrote,      \* per run: the files the run has written
    generated,  \* per run: the key slots for which it called create_rsa_key_pair
    built,      \* per run: the certificate slots for which it built a certificate
    order,      \* per run: the slots resolved so far, in the order of resolution
    failedAt,   \* per run: the slot at which a fatal error ended it, else 0
    faults      \* number of injected GenerationError / SigningError so far

vars == <<store, pcSlot, pcOp, loc, store0, wrote, generated, built, order,
          failedAt, faults>>

(***************************************************************************)
(* Bounds                                                                  *)
(***************************************************************************)
MaxRuns == 2
MaxFaults == 1

Runs == 1..MaxRuns
ConcRuns == {1, 2}

(***************************************************************************)
(* Key usage constants                                                     *)
(***************************************************************************)
KeyUsageFlags ==
    {"digital_signature", "content_commitment", "key_encipherment",
     "data_encipherment", "key_agreement", "key_cert_sign", "crl_sign",
     "encipher_only", "decipher_only"}

CA_KEYUSAGE ==
    [digital_signature |-> TRUE, content_commitment |-> FALSE,
     key_encipherment |-> FALSE, data_encipherment |-> FALSE,
     key_agreement |-> FALSE, key_cert_sign |-> TRUE, crl_sign |-> TRUE,
     encipher_only |-> FALSE, decipher_only |-> FALSE]

ENTITY_KEYUSAGE ==
    [digital_signature |-> TRUE, content_commitment |-> FALSE,
     key_encipherment |-> TRUE, data_encipherment |-> FALSE,
     key_agreement |-> FALSE, key_cert_sign |-> FALSE, crl_sign |-> FALSE,
     encipher_only |-> FALSE, decipher_only |-> FALSE]

SELFSIGNED_ENTITY_KEYUSAGE ==
    [digital_signature |-> TRUE, content_commitment |-> FALSE,
     key_encipherment |-> TRUE, data_encipherment |-> FALSE,
     key_agreement |-> FALSE, key_cert_sign |-> TRUE, crl_sign |-> FALSE,
     encipher_only |-> FALSE, decipher_only |-> FALSE]

SERVER_EXTKEYUSAGE == {"SERVER_AUTH"}
CLIENT_EXTKEYUSAGE == {"CLIENT_AUTH"}

ROOT_DN == <<[oid |-> "COMMON_NAME", value |-> "Mothership Root"]>>
INTERMEDIATE_DN == <<[oid |-> "COMMON_NAME", value |-> "Mothership CA1"]>>
SERVER_DN == <<[oid |-> "ORGANIZATIONAL_UNIT_NAME", value |-> "Mothership Server"]>>
CLIENT_DN == <<[oid |-> "ORGANIZATIONAL_UNIT_NAME", value |-> "Random client"]>>

(***************************************************************************)
(* Files and slots                                                         *)
(***************************************************************************)
KeyFiles ==
    {"root_ca_priv_key", "root_ca_pub_key", "signing_ca_priv_key",
     "signing_ca_pub_key", "server_priv_key", "server_pub_key",
     "client_priv_key", "client_pub_key"}

CertFiles == {"root_cert", "signing_cert", "server_cert", "client_cert"}

Files == KeyFiles \cup CertFiles

\* The eight slots in the textual order of main().
Slots == 1..8
KeySlots == {1, 3, 5, 7}
CertSlots == {2, 4, 6, 8}

PrivOf(s) ==
    CASE s = 1 -> "root_ca_priv_key" [] s = 3 -> "signing_ca_priv_key"
      [] s = 5 -> "server_priv_key"  [] s = 7 -> "client_priv_key"

PubOf(s) ==
    CASE s = 1 -> "root_ca_pub_key" [] s = 3 -> "signing_ca_pub_key"
      [] s = 5 -> "server_pub_key"  [] s = 7 -> "client_pub_key"

CertOf(s) ==
    CASE s = 2 -> "root_cert"   [] s = 4 -> "signing_cert"
      [] s = 6 -> "server_cert" [] s = 8 -> "client_cert"

SlotFiles(s) == IF s \in KeySlots THEN {PrivOf(s), PubOf(s)} ELSE {CertOf(s)}

(***************************************************************************)
(* Bytes, keys, PEM encoding and decoding                                  *)
(***************************************************************************)
Nothing == [none |-> TRUE]
NoFile == [label |-> "ENOENT", body |-> Nothing]       \* open() raises FileNotFoundError
Garbage == [label |-> "garbage", body |-> Nothing]     \* bytes no PEM loader accepts
Unset == [label |-> "unbound", body |-> Nothing]       \* a local not yet assigned
ParseError == [kind |-> "ParseError"]

Pem(label, body) == [label |-> label, body |-> body]

\* rsa.generate_private_key: a fresh private key, named by the generation it
\* comes from (two generations never yield the same key).
generate_private_key(id) == [kind |-> "rsa_private", id |-> id]
public_key(private_key) == [kind |-> "rsa_public", id |-> private_key.id]

private_bytes(private_key) == Pem("PRIVATE KEY", private_key)
public_bytes(pub) == Pem("RSA PUBLIC KEY", pub)
cert_public_bytes(certificate) == Pem("CERTIFICATE", certificate)

load_pem_private_key(bytes) ==
    IF bytes.label = "PRIVATE KEY" THEN bytes.body ELSE ParseError
load_pem_public_key(bytes) ==
    IF bytes.label = "RSA PUBLIC KEY" THEN bytes.body ELSE ParseError
load_pem_x509_certificate(bytes) ==
    IF bytes.label = "CERTIFICATE" THEN bytes.body ELSE ParseError

IsError(x) == x = ParseError

\* The digest both SubjectKeyIdentifier.from_public_key and
\* AuthorityKeyIdentifier.from_issuer_public_key take of a public key.
KeyIdentifier(pub) == [sha1 |-> pub.id]

create_rsa_key_pair_swapped(id) ==
    <<private_bytes(generate_private_key(id)),
      public_bytes(public_key(generate_private_key([run |-> id.run, slot |-> 0])))>>

create_rsa_key_pair(id) ==
    LET private_key == generate_private_key(id)
        pub == public_key(private_key)
    IN  <<private_bytes(private_key), public_bytes(pub)>>

(***************************************************************************)
(* Certificate construction                                                *)
(***************************************************************************)
_cert_helper(pub, subject_dn, issuer_dn, days, serial) ==
    [subject |-> subject_dn, issuer |-> issuer_dn, days |-> days,
     serial_number |-> serial, public_key |-> pub]

\* builder.add_extension(...)* followed by builder.sign(private_key, SHA256)
Sign(builder, bc, ku, eku, san, aki, ski, private_key) ==
    [subject |-> builder.subject, issuer |-> builder.issuer,
     days |-> builder.days, serial_number |-> builder.serial_number,
     public_key |-> builder.public_key,
     basic_constraints |-> bc, key_usage |-> ku, ext_key_usage |-> eku,
     san |-> san, aki |-> aki, ski |-> ski,
     signature |-> [alg |-> "SHA256", by |-> private_key.id]]

create_root_cert(pem_private_key, days, serial) ==
    LET private_key == load_pem_private_key(pem_private_key)
    IN  IF IsError(private_key) THEN ParseError
        ELSE LET pub == public_key(private_key)
                 builder == _cert_helper(pub, ROOT_DN, ROOT_DN, days, serial)
             IN  cert_public_bytes(
                     Sign(builder, [ca |-> TRUE, path_length |-> {}],
                          CA_KEYUSAGE, {}, <<>>,
                          KeyIdentifier(pub), KeyIdentifier(pub), private_key))

create_signing_cert_own_aki(pem_issuer_cert, pem_private_key, pem_public_key, days, serial) ==
    LET issuer_cert == load_pem_x509_certificate(pem_issuer_cert)
        private_key == load_pem_private_key(pem_private_key)
        pub == load_pem_public_key(pem_public_key)
    IN  IF IsError(issuer_cert) \/ IsError(private_key) \/ IsError(pub)
        THEN ParseError
        ELSE LET builder == _cert_helper(pub, INTERMEDIATE_DN,
                                         issuer_cert.subject, days, serial)
             IN  cert_public_bytes(
                     Sign(builder, [ca |-> TRUE, path_length |-> {0}],
                          CA_KEYUSAGE, {}, <<>>,
                          KeyIdentifier(pub), KeyIdentifier(pub), private_key))

create_signing_cert(pem_issuer_cert, pem_private_key, pem_public_key, days, serial) ==
    LET issuer_cert == load_pem_x509_certificate(pem_issuer_cert)
        private_key == load_pem_private_key(pem_private_key)
        pub == load_pem_public_key(pem_public_key)
    IN  IF IsError(issuer_cert) \/ IsError(private_key) \/ IsError(pub)
        THEN ParseError
        ELSE LET builder == _cert_helper(pub, INTERMEDIATE_DN,
                                         issuer_cert.subject, days, serial)
             IN  cert_public_bytes(
                     Sign(builder, [ca |-> TRUE, path_length |-> {0}],
                          CA_KEYUSAGE, {}, <<>>,
                          KeyIdentifier(issuer_cert.public_key),
                          KeyIdentifier(pub), private_key))

create_server_cert(pem_issuer_cert, pem_private_key, pem_public_key, days, serial) ==
    LET issuer_cert == load_pem_x509_certificate(pem_issuer_cert)
        private_key == load_pem_private_key(pem_private_key)
        pub == load_pem_public_key(pem_public_key)
    IN  IF IsError(issuer_cert) \/ IsError(private_key) \/ IsError(pub)
        THEN ParseError
        ELSE LET builder == _cert_helper(pub, SERVER_DN,
                                         issuer_cert.subject, days, serial)
             IN  cert_public_bytes(
                     Sign(builder, [ca |-> FALSE, path_length |-> {}],
                          ENTITY_KEYUSAGE, SERVER_EXTKEYUSAGE,
                          <<[type |-> "DNSName", value |-> "mothership_server"]>>,
                          KeyIdentifier(issuer_cert.public_key),
                          KeyIdentifier(pub), private_key))

create_selfsigned_client_cert(pem_private_key, days, serial) ==
    LET private_key == load_pem_private_key(pem_private_key)
    IN  IF IsError(private_key) THEN ParseError
        ELSE LET pub == public_key(private_key)
                 builder == _cert_helper(pub, CLIENT_DN, CLIENT_DN, days, serial)
             IN  cert_public_bytes(
                     Sign(builder, [ca |-> FALSE, path_length |-> {}],
                          SELFSIGNED_ENTITY_KEYUSAGE, CLIENT_EXTKEYUSAGE,
                          <<[type |-> "DirectoryName", value |-> "device_0001"]>>,
                          KeyIdentifier(pub), KeyIdentifier(pub), private_key))

BuildCallRootSignsServer(s, l, serial) ==
    CASE s = 2 -> create_root_cert(l["root_ca_priv_key"], 365, serial)
      [] s = 4 -> create_signing_cert(l["root_cert"], l["root_ca_priv_key"],
                                      l["signing_ca_pub_key"], 14, serial)
      [] s = 6 -> create_server_cert(l["signing_cert"], l["root_ca_priv_key"],
                                     l["server_pub_key"], 14, serial)
      [] s = 8 -> create_selfsigned_client_cert(l["client_priv_key"], 14, serial)

\* The call main() makes for certificate slot s, on the locals l of the run.
BuildCall(s, l, serial) ==
    CASE s = 2 -> create_root_cert(l["root_ca_priv_key"], 365, serial)
      [] s = 4 -> create_signing_cert(l["root_cert"], l["root_ca_priv_key"],
                                      l["signing_ca_pub_key"], 14, serial)
      [] s = 6 -> create_server_cert(l["signing_cert"], l["signing_ca_priv_key"],
                                     l["server_pub_key"], 14, serial)
      [] s = 8 -> create_selfsigned_client_cert(l["client_priv_key"], 14, serial)

(***************************************************************************)
(* Initial stores                                                          *)
(*                                                                         *)
(* The store a run finds is whatever earlier runs and the operator left:   *)
(* the artifacts of one earlier complete provisioning (generation 0), of   *)
(* which any set of slots has been removed, and in which at most one file  *)
(* has been damaged (one file of a key pair removed, or one file           *)
(* overwritten with bytes that do not parse).                              *)
(***************************************************************************)
OldId(s) == [run |-> 0, slot |-> s]

OldLocals ==
    LET k1 == create_rsa_key_pair(OldId(1))
        k3 == create_rsa_key_pair(OldId(3))
        k5 == create_rsa_key_pair(OldId(5))
        k7 == create_rsa_key_pair(OldId(7))
        keys == [f \in Files |->
                    CASE f = "root_ca_priv_key" -> k1[1]
                      [] f = "root_ca_pub_key" -> k1[2]
                      [] f = "signing_ca_priv_key" -> k3[1]
                      [] f = "signing_ca_pub_key" -> k3[2]
                      [] f = "server_priv_key" -> k5[1]
                      [] f = "server_pub_key" -> k5[2]
                      [] f = "client_priv_key" -> k7[1]
                      [] f = "client_pub_key" -> k7[2]
                      [] OTHER -> Unset]
        c2 == [keys EXCEPT !["root_cert"] = BuildCall(2, keys, OldId(2))]
        c4 == [c2 EXCEPT !["signing_cert"] = BuildCall(4, c2, OldId(4))]
        c6 == [c4 EXCEPT !["server_cert"] = BuildCall(6, c4, OldId(6))]
    IN  [c6 EXCEPT !["client_cert"] = BuildCall(8, c6, OldId(8))]

EmptyStore == [f \in Files |-> NoFile]

Keep(present) ==
    [f \in Files |->
        IF \E s \in present : f \in SlotFiles(s) THEN OldLocals[f] ELSE NoFile]

Defects ==
    {[op |-> "none", file |-> "root_cert"]}
        \cup {[op |-> "remove", file |-> f] : f \in KeyFiles}
        \cup {[op |-> "corrupt", file |-> f] : f \in Files}

Damage(st, d) ==
    IF d.op = "none" \/ st[d.file] = NoFile THEN st
    ELSE IF d.op = "remove" THEN [st EXCEPT ![d.file] = NoFile]
    ELSE [st EXCEPT ![d.file] = Garbage]

InitStores == {Damage(Keep(present), d) : present \in SUBSET Slots, d \in Defects}

NoLocals == [f \in Files |-> Unset]

InitRest ==
    /\ pcSlot = [r \in Runs |-> 1]
    /\ pcOp = [r \in Runs |-> "idle"]
    /\ loc = [r \in Runs |-> NoLocals]
    /\ store0 = [r \in Runs |-> EmptyStore]
    /\ wrote = [r \in Runs |-> {}]
    /\ generated = [r \in Runs |-> {}]
    /\ built = [r \in Runs |-> {}]
    /\ order = [r \in Runs |-> <<>>]
    /\ failedAt = [r \in Runs |-> 0]
    /\ faults = 0

Init == store \in InitStores /\ InitRest

\* Stores on which two runs race: one role's slots, or one half of the chain,
\* are missing and the rest is the consistent generation 0.
ConcPresent ==
    {{3, 4, 5, 6, 7, 8}, {1, 2, 5, 6, 7, 8}, {1, 2, 3, 4, 7, 8},
     {1, 2, 3, 4, 5, 6}, {5, 6, 7, 8}, {1, 2, 3, 4}}

InitConc == store \in {Keep(p) : p \in ConcPresent} /\ InitRest

(***************************************************************************)
(* main(): control flow                                                    *)
(***************************************************************************)
Finished(r) == pcOp[r] \in {"done", "failed"}
Started(r) == pcOp[r] # "idle"
Running(r) == Started(r) /\ ~Finished(r)

NextSlotClientFirst(s) == IF s = 4 THEN 7 ELSE IF s = 8 THEN 5 ELSE IF s = 6 THEN 9 ELSE s + 1

\* main() is straight-line code: the try blocks follow each other.
NextSlot(s) == s + 1

FirstOp(s) ==
    IF s \notin Slots THEN "done"
    ELSE IF s \in KeySlots THEN "read_priv" ELSE "read_cert"

\* Control leaves the try/except of the slot pcSlot[r]: the slot is resolved.
Advance(r) ==
    /\ pcSlot' = [pcSlot EXCEPT ![r] = NextSlot(pcSlot[r])]
    /\ pcOp' = [pcOp EXCEPT ![r] = FirstOp(NextSlot(pcSlot[r]))]
    /\ order' = [order EXCEPT ![r] = Append(order[r], pcSlot[r])]

Goto(r, op) ==
    /\ pcOp' = [pcOp EXCEPT ![r] = op]
    /\ UNCHANGED <<pcSlot, order>>

AbortSkipsSlot(r) ==
    /\ pcSlot' = [pcSlot EXCEPT ![r] = NextSlot(pcSlot[r])]
    /\ pcOp' = [pcOp EXCEPT ![r] = FirstOp(NextSlot(pcSlot[r]))]
    /\ failedAt' = [failedAt EXCEPT ![r] = pcSlot[r]]
    /\ UNCHANGED order

\* An exception no except clause catches ends the process.
Abort(r) ==
    /\ pcOp' = [pcOp EXCEPT ![r] = "failed"]
    /\ failedAt' = [failedAt EXCEPT ![r] = pcSlot[r]]
    /\ UNCHANGED <<pcSlot, order>>

Begin(r) ==
    /\ pcOp[r] = "idle"
    /\ pcOp' = [pcOp EXCEPT ![r] = FirstOp(1)]
    /\ store0' = [store0 EXCEPT ![r] = store]
    /\ UNCHANGED <<store, pcSlot, loc, wrote, generated, built, order,
                   failedAt, faults>>

\* One process at a time, each run after the previous one has ended.
StartSeq(r) ==
    /\ \A q \in Runs : q < r => Finished(q)
    /\ Begin(r)

\* Two processes started independently on the same directory.
StartConc(r) ==
    /\ r \in ConcRuns
    /\ Begin(r)

(***************************************************************************)
(* main(): key pair slots                                                  *)
(***************************************************************************)
ReadPrivAlwaysGen(r) ==
    /\ pcOp[r] = "read_priv"
    /\ Goto(r, "gen")
    /\ UNCHANGED <<store, store0, loc, wrote, generated, built, failedAt, faults>>

\* x_priv_key = open('x_priv_key.pem', 'rb').read()
ReadPriv(r) ==
    /\ pcOp[r] = "read_priv"
    /\ LET f == PrivOf(pcSlot[r])
       IN  IF store[f] = NoFile
           THEN /\ Goto(r, "gen")
                /\ UNCHANGED loc
           ELSE /\ Goto(r, "read_pub")
                /\ loc' = [loc EXCEPT ![r][f] = store[f]]
    /\ UNCHANGED <<store, store0, wrote, generated, built, failedAt, faults>>

\* x_pub_key = open('x_pub_key.pem', 'rb').read()
ReadPub(r) ==
    /\ pcOp[r] = "read_pub"
    /\ LET f == PubOf(pcSlot[r])
       IN  IF store[f] = NoFile
           THEN /\ Goto(r, "gen")
                /\ UNCHANGED loc
           ELSE /\ Advance(r)
                /\ loc' = [loc EXCEPT ![r][f] = store[f]]
    /\ UNCHANGED <<store, store0, wrote, generated, built, failedAt, faults>>

\* except FileNotFoundError: x_priv_key, x_pub_key = create_rsa_key_pair()
GenKeys(r) ==
    /\ pcOp[r] = "gen"
    /\ LET s == pcSlot[r]
           pair == create_rsa_key_pair([run |-> r, slot |-> s])
       IN  /\ loc' = [loc EXCEPT ![r][PrivOf(s)] = pair[1],
                                 ![r][PubOf(s)] = pair[2]]
           /\ generated' = [generated EXCEPT ![r] = @ \cup {s}]
    /\ Goto(r, "write_priv")
    /\ UNCHANGED <<store, store0, wrote, built, failedAt, faults>>

\* create_rsa_key_pair() raises (the primitive is unavailable).
GenFail(r) ==
    /\ pcOp[r] = "gen"
    /\ faults < MaxFaults
    /\ faults' = faults + 1
    /\ Abort(r)
    /\ UNCHANGED <<store, store0, loc, wrote, generated, built>>

\* open('x_priv_key.pem', 'wb').write(x_priv_key)
WritePriv(r) ==
    /\ pcOp[r] = "write_priv"
    /\ LET f == PrivOf(pcSlot[r])
       IN  /\ store' = [store EXCEPT ![f] = loc[r][f]]
           /\ wrote' = [wrote EXCEPT ![r] = @ \cup {f}]
    /\ Goto(r, "write_pub")
    /\ UNCHANGED <<store0, loc, generated, built, failedAt, faults>>

\* open('x_pub_key.pem', 'wb').write(x_pub_key)
WritePub(r) ==
    /\ pcOp[r] = "write_pub"
    /\ LET f == PubOf(pcSlot[r])
       IN  /\ store' = [store EXCEPT ![f] = loc[r][f]]
           /\ wrote' = [wrote EXCEPT ![r] = @ \cup {f}]
    /\ Advance(r)
    /\ UNCHANGED <<store0, loc, generated, built, failedAt, faults>>

(***************************************************************************)
(* main(): certificate slots                                               *)
(***************************************************************************)
ReadCertIgnoringStore(r) ==
    /\ pcOp[r] = "read_cert"
    /\ Goto(r, "build")
    /\ UNCHANGED <<store, store0, loc, wrote, generated, built, failedAt, faults>>

\* x_cert = open('x_cert.pem', 'rb').read()
ReadCert(r) ==
    /\ pcOp[r] = "read_cert"
    /\ LET f == CertOf(pcSlot[r])
       IN  IF store[f] = NoFile
           THEN /\ Goto(r, "build")
                /\ UNCHANGED loc
           ELSE /\ Advance(r)
                /\ loc' = [loc EXCEPT ![r][f] = store[f]]
    /\ UNCHANGED <<store, store0, wrote, generated, built, failedAt, faults>>

\* except FileNotFoundError: x_cert = create_x_cert(...); a loader that
\* rejects its input raises and the process ends.
BuildCert(r) ==
    /\ pcOp[r] = "build"
    /\ LET s == pcSlot[r]
           res == BuildCall(s, loc[r], [run |-> r, slot |-> s])
       IN  IF IsError(res)
           THEN /\ Abort(r)
                /\ UNCHANGED <<loc, built>>
           ELSE /\ Goto(r, "write_cert")
                /\ loc' = [loc EXCEPT ![r][CertOf(s)] = res]
                /\ built' = [built EXCEPT ![r] = @ \cup {s}]
                /\ UNCHANGED failedAt
    /\ UNCHANGED <<store, store0, wrote, generated, faults>>

\* builder.sign() raises.
SignFail(r) ==
    /\ pcOp[r] = "build"
    /\ faults < MaxFaults
    /\ faults' = faults + 1
    /\ Abort(r)
    /\ UNCHANGED <<store, store0, loc, wrote, generated, built>>

\* open('x_cert.pem', 'wb').write(x_cert)
WriteCert(r) ==
    /\ pcOp[r] = "write_cert"
    /\ LET f == CertOf(pcSlot[r])
       IN  /\ store' = [store EXCEPT ![f] = loc[r][f]]
           /\ wrote' = [wrote EXCEPT ![r] = @ \cup {f}]
    /\ Advance(r)
    /\ UNCHANGED <<store0, loc, generated, built, failedAt, faults>>

(***************************************************************************)
(* Specifications                                                          *)
(***************************************************************************)
Next ==
    \E r \in Runs :
        \/ StartSeq(r)
        \/ ReadPriv(r)
        \/ ReadPub(r)
        \/ GenKeys(r)
        \/ GenFail(r)
        \/ WritePriv(r)
        \/ WritePub(r)
        \/ ReadCert(r)
        \/ BuildCert(r)
        \/ SignFail(r)
        \/ WriteCert(r)

Spec == Init /\ [][Next]_vars

NextConc ==
    \E r \in ConcRuns :
        \/ StartConc(r)
        \/ ReadPriv(r)
        \/ ReadPub(r)
        \/ GenKeys(r)
        \/ WritePriv(r)
        \/ WritePub(r)
        \/ ReadCert(r)
        \/ BuildCert(r)
        \/ WriteCert(r)

SpecConc == InitConc /\ [][NextConc]_vars

(***************************************************************************)
(* Vocabulary of the properties                                            *)
(***************************************************************************)
SlotPresentIn(st, s) == \A f \in SlotFiles(s) : st[f] # NoFile
PresentSlots(st) == {s \in Slots : SlotPresentIn(st, s)}
FilesOf(ss) == UNION {SlotFiles(s) : s \in ss}
Created(r) == generated[r] \cup built[r]
LastStarted(r) == Started(r) /\ \A q \in Runs : q > r => ~Started(q)
Range(seq) == {seq[i] : i \in 1..Len(seq)}

\* The slots whose locals the build call of certificate slot s reads.
Deps(s) ==
    CASE s = 2 -> {1} [] s = 4 -> {1, 2, 3} [] s = 6 -> {3, 4, 5} [] s = 8 -> {7}

DownstreamFiles ==
    {"server_priv_key", "server_pub_key", "server_cert",
     "client_priv_key", "client_pub_key", "client_cert"}

\* The certificate a run built for slot s (it stays in the run's local).
BuiltCert(r, s) == load_pem_x509_certificate(loc[r][CertOf(s)])

\* The signature of certificate c verifies under public key pub.
Verifies(c, pub) == c.signature.by = pub.id

(***************************************************************************)
(* C1  Idempotence: a run started on the store a completed run left        *)
(* generates no key pair, builds no certificate, writes no file and        *)
(* leaves every stored byte as it was.                                     *)
(***************************************************************************)
C1_Idempotent ==
    \A r \in Runs :
        (r > 1 /\ Started(r) /\ pcOp[r - 1] = "done") =>
            /\ generated[r] = {}
            /\ built[r] = {}
            /\ wrote[r] = {}
            /\ store = store0[r]

C1_Witness ==
    /\ pcOp[1] = "done" /\ generated[1] # {} /\ built[1] # {}
    /\ pcOp[2] = "done"

(***************************************************************************)
(* C2  Create-or-reuse: a run that completes has created exactly the slots *)
(* that were absent when it started, written exactly their files, and left *)
(* every slot that was present byte-identical.                             *)
(***************************************************************************)
C2_CreateOrReuse ==
    \A r \in Runs :
        (pcOp[r] = "done" /\ LastStarted(r)) =>
            LET P == PresentSlots(store0[r])
            IN  /\ Created(r) = Slots \ P
                /\ wrote[r] = FilesOf(Slots \ P)
                /\ \A f \in FilesOf(P) : store[f] = store0[r][f]
                /\ \A f \in Files : store[f] # NoFile

C2_Witness ==
    /\ pcOp[1] = "done"
    /\ store0[1] = Keep({1, 2})
    /\ Created(1) = {3, 4, 5, 6, 7, 8}
    /\ \A f \in FilesOf({1, 2}) : store[f] = store0[1][f]

(***************************************************************************)
(* C3  (as claimed) A run that starts with unparseable bytes in the        *)
(* signing certificate file fails, and generates or writes none of the     *)
(* server keys, server certificate, client keys, client certificate.       *)
(***************************************************************************)
C3_CorruptSigningCertStopsRun ==
    \A r \in Runs :
        (LastStarted(r) /\ store0[r]["signing_cert"] = Garbage) =>
            /\ pcOp[r] # "done"
            /\ wrote[r] \cap DownstreamFiles = {}
            /\ Created(r) \cap {5, 6, 7, 8} = {}

(***************************************************************************)
(* C4  (as claimed) The AuthorityKeyIdentifier of every certificate a run  *)
(* builds is the SubjectKeyIdentifier of the public key of the private key *)
(* that signed it.                                                         *)
(***************************************************************************)
C4_AkiIsSignerSki ==
    \A r \in Runs : \A s \in built[r] :
        LET c == BuiltCert(r, s)
        IN  c.aki = KeyIdentifier([id |-> c.signature.by])

(***************************************************************************)
(* C4  (amended) The AuthorityKeyIdentifier of a built root or client      *)
(* certificate is its own SubjectKeyIdentifier and that of the signing     *)
(* key; the one of a built signing (server) certificate is the key         *)
(* identifier of the public key in the root (signing) certificate the run  *)
(* resolved; for the signing certificate it is the signer's whenever the   *)
(* same run built the root certificate.                                    *)
(***************************************************************************)
C4_AkiIsIssuerCertSki ==
    \A r \in Runs : \A s \in built[r] :
        LET c == BuiltCert(r, s)
            signer == KeyIdentifier([id |-> c.signature.by])
        IN  /\ s \in {2, 8} => c.aki = c.ski /\ c.aki = signer
            /\ s \in {4, 6} =>
                 LET issuer == load_pem_x509_certificate(loc[r][CertOf(s - 2)])
                 IN  /\ c.aki = KeyIdentifier(issuer.public_key)
                     /\ c.aki = issuer.ski
                     /\ c.issuer = issuer.subject
                     /\ (s = 4 /\ 2 \in built[r]) => c.aki = signer

C4_Witness ==
    \E r \in Runs :
        /\ 4 \in built[r] /\ 2 \notin built[r] /\ 1 \in generated[r]
        /\ BuiltCert(r, 4).aki # KeyIdentifier([id |-> BuiltCert(r, 4).signature.by])

(***************************************************************************)
(* C5  A run that completes from the empty store leaves all twelve files,  *)
(* and the chain is consistent: root and client certificates are           *)
(* self-issued and self-signed, the signing certificate is issued and      *)
(* signed by the stored root key, the server certificate by the stored     *)
(* signing key, and each certificate embeds the stored public key of its   *)
(* role, which belongs to the stored private key of that role.             *)
(***************************************************************************)
ChainConsistent(st) ==
    LET rootK == load_pem_private_key(st["root_ca_priv_key"])
        rootP == load_pem_public_key(st["root_ca_pub_key"])
        signK == load_pem_private_key(st["signing_ca_priv_key"])
        signP == load_pem_public_key(st["signing_ca_pub_key"])
        servK == load_pem_private_key(st["server_priv_key"])
        servP == load_pem_public_key(st["server_pub_key"])
        cliK == load_pem_private_key(st["client_priv_key"])
        cliP == load_pem_public_key(st["client_pub_key"])
        rootC == load_pem_x509_certificate(st["root_cert"])
        signC == load_pem_x509_certificate(st["signing_cert"])
        servC == load_pem_x509_certificate(st["server_cert"])
        cliC == load_pem_x509_certificate(st["client_cert"])
    IN  /\ \A x \in {rootK, rootP, signK, signP, servK, servP, cliK, cliP} :
              ~IsError(x)
        /\ \A x \in {rootC, signC, servC, cliC} : ~IsError(x)
        /\ public_key(rootK) = rootP /\ public_key(signK) = signP
        /\ public_key(servK) = servP /\ public_key(cliK) = cliP
        /\ rootC.issuer = rootC.subject /\ rootC.subject = ROOT_DN
        /\ rootC.public_key = rootP /\ Verifies(rootC, rootP)
        /\ rootC.signature.by = rootK.id
        /\ signC.issuer = rootC.subject /\ signC.subject = INTERMEDIATE_DN
        /\ signC.public_key = signP /\ Verifies(signC, rootC.public_key)
        /\ signC.signature.by = rootK.id
        /\ servC.issuer = signC.subject /\ servC.subject = SERVER_DN
        /\ servC.public_key = servP /\ Verifies(servC, signC.public_key)
        /\ servC.signature.by = signK.id
        /\ cliC.issuer = cliC.subject /\ cliC.subject = CLIENT_DN
        /\ cliC.public_key = cliP /\ Verifies(cliC, cliP)
        /\ cliC.signature.by = cliK.id

C5_EmptyStoreChain ==
    \A r \in Runs :
        (pcOp[r] = "done" /\ store0[r] = EmptyStore) =>
            /\ \A f \in Files : store[f] # NoFile
            /\ ChainConsistent(store)

C5_Witness ==
    \E r \in Runs :
        pcOp[r] = "done" /\ store0[r] = EmptyStore /\ Created(r) = Slots

(***************************************************************************)
(* C6  Two interleaved runs: the private and the public key file of a role *)
(* come from different generations, or the stored certificate of a role    *)
(* embeds a key that is not the stored one, only when both runs found a    *)
(* file of the role's key slot missing and both generated the pair; the    *)
(* witness is a final store in which that has happened.                    *)
(***************************************************************************)
MixedPair(s) ==
    LET k == load_pem_private_key(store[PrivOf(s)])
        p == load_pem_public_key(store[PubOf(s)])
    IN  ~IsError(k) /\ ~IsError(p) /\ public_key(k) # p

CertOverOtherKey(s) ==
    LET p == load_pem_public_key(store[PubOf(s)])
        c == load_pem_x509_certificate(store[CertOf(s + 1)])
    IN  ~IsError(p) /\ ~IsError(c) /\ c.public_key # p

C6_MixedOnlyWhenBothGenerate ==
    \A s \in KeySlots :
        (MixedPair(s) \/ CertOverOtherKey(s)) =>
            s \in generated[1] /\ s \in generated[2]

C6_Witness ==
    /\ pcOp[1] = "done" /\ pcOp[2] = "done"
    /\ \E s \in KeySlots :
          /\ s \in generated[1] /\ s \in generated[2]
          /\ {PrivOf(s), PubOf(s)} \subseteq wrote[1] \cap wrote[2]
          /\ MixedPair(s)

(***************************************************************************)
(* C7  Abort and resume: a fatal error at slot k stops the run at k; what  *)
(* the run wrote belongs to slots before k and stays in the store; slot k  *)
(* and the slots after it are not written by that run; the next run that   *)
(* completes reuses what is stored, creates what is absent and ends with   *)
(* every file present.                                                     *)
(***************************************************************************)
C7_AbortAndResume ==
    \A r \in Runs :
        failedAt[r] # 0 =>
            LET k == failedAt[r]
            IN  /\ pcOp[r] = "failed" /\ pcSlot[r] = k
                /\ order[r] = [i \in 1..(k - 1) |-> i]
                /\ wrote[r] \subseteq FilesOf(1..(k - 1))
                /\ Created(r) \subseteq 1..(k - 1)
                /\ \A f \in wrote[r] : store[f] = loc[r][f]
                /\ \A q \in Runs :
                     (q > r /\ pcOp[q] = "done" /\ LastStarted(q)) =>
                        /\ wrote[q] \cap wrote[r] = {}
                        /\ Created(q) = Slots \ PresentSlots(store0[q])
                        /\ \A f \in FilesOf(PresentSlots(store0[q])) :
                              store[f] = store0[q][f]
                        /\ \A f \in Files : store[f] # NoFile

C7_Witness ==
    /\ pcOp[1] = "failed" /\ failedAt[1] = 4 /\ wrote[1] # {}
    /\ pcOp[2] = "done" /\ 4 \in built[2] /\ 1 \notin generated[2]

(***************************************************************************)
(* C8  Dependency order: a run resolves the slots in the order root keys,  *)
(* root cert, signing keys, signing cert, server keys, server cert, client *)
(* keys, client cert; when a certificate has just been built, the slots    *)
(* its build reads have been resolved by that run and are in the store.    *)
(***************************************************************************)
C8_DependencyOrder ==
    \A r \in Runs :
        /\ \A i \in 1..Len(order[r]) : order[r][i] = i
        /\ \A s \in built[r] : Deps(s) \subseteq {d \in Slots : d < s}
        /\ pcOp[r] = "write_cert" =>
              /\ Deps(pcSlot[r]) \subseteq Range(order[r])
              /\ \A f \in FilesOf(Deps(pcSlot[r])) : store[f] # NoFile

C8_Witness ==
    \E r \in Runs :
        /\ pcOp[r] = "write_cert" /\ pcSlot[r] = 6
        /\ 5 \in generated[r] /\ 4 \in built[r]

(***************************************************************************)
(* C9  (as claimed) SELFSIGNED_ENTITY_KEYUSAGE is the union of CA_KEYUSAGE *)
(* and ENTITY_KEYUSAGE, so every client certificate a run builds carries a *)
(* flag exactly when one of the two carries it.                            *)
(***************************************************************************)
C9_SelfSignedIsUnion ==
    /\ \A f \in KeyUsageFlags :
          SELFSIGNED_ENTITY_KEYUSAGE[f] <=> (CA_KEYUSAGE[f] \/ ENTITY_KEYUSAGE[f])
    /\ \A r \in Runs :
          8 \in built[r] =>
              \A f \in KeyUsageFlags :
                  BuiltCert(r, 8).key_usage[f]
                      <=> (CA_KEYUSAGE[f] \/ ENTITY_KEYUSAGE[f])

(***************************************************************************)
(* C10  (as claimed) A run never changes the bytes of a file that exists   *)
(* when the run starts, also when only one file of a key pair exists.      *)
(***************************************************************************)
C10_NoFileOverwritten ==
    \A r \in Runs :
        LastStarted(r) =>
            \A f \in Files : store0[r][f] # NoFile => store[f] = store0[r][f]
====
